---- MODULE Spec2Model ----
(***************************************************************************)
(* Model of dynamic_dynamodb/statistics/table.py and statistics/gsi.py:    *)
(* the CloudWatch metric fetch under the `retrying` decorator, the         *)
(* consumed-capacity percentage arithmetic (Python floats, i.e. IEEE 754   *)
(* binary64, round-to-nearest-even) and the throttle-event pass-through.   *)
(***************************************************************************)
EXTENDS Integers, Sequences, FiniteSets, TLC

(***************************************************************************)
(* Python float arithmetic.  A float is a record                           *)
(*   [zero, neg, mant, exp]                                                *)
(* whose magnitude is 1.mant[2..] * 2^exp, mant being MantissaBits bits,   *)
(* most significant first, mant[1] = 1.  Only the operations the two       *)
(* modules use are modelled: int/int true division of float(a) by          *)
(* float(b), multiplication by the int 100, math.ceil followed by int().   *)
(***************************************************************************)
MantissaBits == 53

Abs(x) == IF x < 0 THEN -x ELSE x

Max(S) == CHOOSE x \in S : \A y \in S : y <= x

FloatZero == [zero |-> TRUE, neg |-> FALSE, mant |-> <<>>, exp |-> 0]

\* Number of binary digits of n >= 0 (0 for n = 0), n < 2^30.
BitLength(n) == IF n = 0 THEN 0 ELSE Max({w \in 1..30 : 2^(w - 1) <= n})

\* The w low binary digits of n, most significant first.
IntToBits(n, w) == [i \in 1..w |-> (n \div 2^(w - i)) % 2]

\* Binary digits of n >= 0, most significant first (<<>> for 0).
BitsOf(n) == IntToBits(n, BitLength(n))

RECURSIVE BitsToInt(_)
BitsToInt(bits) ==
    IF Len(bits) = 0 THEN 0
    ELSE IF Len(bits) = 1 THEN bits[1]
    ELSE LET h == Len(bits) \div 2
         IN  BitsToInt(SubSeq(bits, 1, h)) * 2^(Len(bits) - h)
             + BitsToInt(SubSeq(bits, h + 1, Len(bits)))

\* Scale n/d (n, d > 0) by a power of two so that d <= n < 2d:
\* n/d = (result.n / result.d) * 2^result.e.
Normalise(n, d) ==
    IF n >= d
    THEN LET e == BitLength(n \div d) - 1
         IN  [n |-> n, d |-> d * 2^e, e |-> e]
    ELSE LET s == BitLength((d + n - 1) \div n - 1)
         IN  [n |-> n * 2^s, d |-> d, e |-> -s]

RECURSIVE RemainderAfter(_, _, _)
\* (r * 2^k) mod d: the remainder left once k bits of the binary expansion
\* of r/d (r < d) have been produced; eight bits at a time.
RemainderAfter(r, d, k) ==
    IF k <= 8 THEN (r * 2^k) % d
    ELSE RemainderAfter((r * 256) % d, d, k - 8)

\* The first k bits of the binary expansion of r/d (r < d), most significant first.
QuotientBits(r, d, k) ==
    [i \in 1..k |-> IF 2 * RemainderAfter(r, d, i - 1) >= d THEN 1 ELSE 0]

\* bits + 1; one bit longer when every bit was 1.
Increment(bits) ==
    LET zeros == {i \in 1..Len(bits) : bits[i] = 0}
    IN  IF zeros = {} THEN <<1>> \o [i \in 1..Len(bits) |-> 0]
        ELSE [i \in 1..Len(bits) |->
                 IF i < Max(zeros) THEN bits[i]
                 ELSE IF i = Max(zeros) THEN 1 ELSE 0]

\* Round an exact magnitude 1.bits[2..] * 2^e (Len(bits) > MantissaBits, with
\* sticky telling whether non-zero bits follow) to nearest, ties to even.
RoundNearestEven(neg, bits, e, sticky) ==
    LET keep  == SubSeq(bits, 1, MantissaBits)
        guard == bits[MantissaBits + 1]
        rest  == sticky \/ \E i \in (MantissaBits + 2)..Len(bits) : bits[i] = 1
        up    == guard = 1 /\ (rest \/ keep[MantissaBits] = 1)
        inc   == Increment(keep)
    IN  IF ~up THEN [zero |-> FALSE, neg |-> neg, mant |-> keep, exp |-> e]
        ELSE IF Len(inc) > MantissaBits
             THEN [zero |-> FALSE, neg |-> neg,
                   mant |-> SubSeq(inc, 1, MantissaBits), exp |-> e + 1]
             ELSE [zero |-> FALSE, neg |-> neg, mant |-> inc, exp |-> e]

\* float(a) / float(b) for ints a, b (b # 0) that floats hold exactly.
FloatDiv(a, b) ==
    IF a = 0 THEN FloatZero
    ELSE LET nrm  == Normalise(Abs(a), Abs(b))
             r0   == nrm.n - nrm.d
             bits == <<1>> \o QuotientBits(r0, nrm.d, MantissaBits)
             rem  == RemainderAfter(r0, nrm.d, MantissaBits)
         IN  RoundNearestEven((a < 0) # (b < 0), bits, nrm.e, rem # 0)

RECURSIVE MulBits(_, _, _)
\* bits * k + carry, as bits; sixteen bits at a time from the low end.
MulBits(bits, k, carry) ==
    IF Len(bits) = 0 THEN BitsOf(carry)
    ELSE LET w  == IF Len(bits) > 16 THEN 16 ELSE Len(bits)
             lo == SubSeq(bits, Len(bits) - w + 1, Len(bits))
             hi == SubSeq(bits, 1, Len(bits) - w)
             t  == BitsToInt(lo) * k + carry
         IN  MulBits(hi, k, t \div 2^w) \o IntToBits(t % 2^w, w)

\* x * k for a float x and an int k >= 2 that a float holds exactly.
FloatMulInt(x, k) ==
    IF x.zero THEN FloatZero
    ELSE LET prod == MulBits(x.mant, k, 0)
         IN  RoundNearestEven(x.neg, prod,
                              x.exp + (Len(prod) - MantissaBits), FALSE)

\* int(math.ceil(x)), for |x| < 2^30.
CeilInt(x) ==
    IF x.zero THEN 0
    ELSE IF x.exp < 0 THEN (IF x.neg THEN 0 ELSE 1)
    ELSE LET whole == BitsToInt(SubSeq(x.mant, 1, x.exp + 1))
             frac  == \E i \in (x.exp + 2)..MantissaBits : x.mant[i] = 1
         IN  IF x.neg THEN -whole
             ELSE IF frac THEN whole + 1 ELSE whole

(***************************************************************************)
(* The retry policy of the decorator on __get_aws_metric.  The keyword     *)
(* arguments are the source's; exponential_sleep and stop_after_attempt    *)
(* are the methods of retrying.Retrying they select.  No retry_on_exception*)
(* is given, so every exception of the wrapped call is retried.            *)
(***************************************************************************)
wait_exponential_multiplier == 1000

wait_exponential_max == 10000

stop_max_attempt_number == 10

\* Mutant: the exponent counts the retries, so the first wait is the multiplier.
exponential_sleep_from_multiplier(previous_attempt_number) ==
    LET result == wait_exponential_multiplier * 2^(previous_attempt_number - 1)
    IN  IF result > wait_exponential_max THEN wait_exponential_max ELSE result

\* Retrying.exponential_sleep: multiplier * 2^previous_attempt_number, capped.
exponential_sleep(previous_attempt_number) ==
    LET result == wait_exponential_multiplier * 2^previous_attempt_number
    IN  IF result > wait_exponential_max THEN wait_exponential_max ELSE result

\* Mutant: stops one attempt late.
stop_after_attempt_late(previous_attempt_number) ==
    previous_attempt_number > stop_max_attempt_number

\* Retrying.stop_after_attempt.
stop_after_attempt(previous_attempt_number) ==
    previous_attempt_number >= stop_max_attempt_number

\* Retrying.should_reject with the default retry_on_exception (always_reject):
\* an attempt that raised is rejected whatever it raised.
should_reject(error) == TRUE

(***************************************************************************)
(* Inputs.  A data point's Sum is a float; the model holds it as an integer *)
(* number of halves (Sum = 7.5 is 15), so that fractional sums exist.      *)
(***************************************************************************)
MaxPoints == 2

Granularities == {"table", "gsi"}

ConsumedMetrics == {"ConsumedReadCapacityUnits", "ConsumedWriteCapacityUnits"}

ThrottleMetrics == {"ReadThrottleEvents", "WriteThrottleEvents"}

MetricNames == ConsumedMetrics \cup ThrottleMetrics

Lookbacks == {-1, 0, 3, 5, 15}

\* Sums 0, 1, 7, 7.5, 4500 and 6300, in halves.
Sums == {0, 2, 14, 15, 9000, 12600}

\* Sums (in halves) of the data points after the first.
LaterSums == {6}

\* What get_metric_statistics may return: no data point, or up to MaxPoints.
MetricResults ==
    {<<>>} \cup
    UNION {{<<s>> \o later : later \in [1..n -> LaterSums]} :
              s \in Sums, n \in 0..(MaxPoints - 1)}

Capacities == {0, 20, 25, 100}

ErrorKinds == {"transient", "nontransient"}

(***************************************************************************)
(* The pure parts of the eight public functions.                           *)
(***************************************************************************)
\* table.py __get_aws_metric: the lookback floor (absent from gsi.py).
MinLookback == 5

\* The lookback the query is built from.
QueryLookback(g, lookback) ==
    IF g = "table" /\ lookback < MinLookback THEN MinLookback ELSE lookback

\* start_time and end_time, in minutes before now.
QueryWindow(g, lookback) ==
    [start |-> QueryLookback(g, lookback), end |-> QueryLookback(g, lookback) - 5]

\* The divisor of the Sum: float(lookback_window_start*60) in table.py, where
\* lookback_window_start is the caller's argument, float(300) in gsi.py.
WindowSeconds(g, lookback) == IF g = "table" THEN lookback * 60 ELSE 300

\* Mutant: the division is made before the list is tested.
SumDivisionByZeroUnguarded(g, lookback, points) ==
    (g = "table" /\ lookback = 0)

\* float(metrics[0]['Sum']) / float(0) raises ZeroDivisionError.
SumDivisionByZero(g, lookback, points) ==
    points # <<>> /\ WindowSeconds(g, lookback) = 0

\* int(math.ceil(float(metrics[0]['Sum'])/float(seconds))), 0 without metrics.
ConsumedUnits(g, lookback, points) ==
    IF points # <<>>
    THEN CeilInt(FloatDiv(points[1], 2 * WindowSeconds(g, lookback)))
    ELSE 0

\* int(math.ceil(float(units) / float(provisioned) * 100)).
ConsumedPercent(units, provisioned) ==
    CeilInt(FloatMulInt(FloatDiv(units, provisioned), 100))

\* Mutant: reads the last data point, not the first.
ThrottledCountOfLast(points) ==
    IF points # <<>> THEN points[Len(points)] \div 2 ELSE 0

\* int(metrics[0]['Sum']), 0 without metrics; int() truncates.
ThrottledCount(points) ==
    IF points # <<>> THEN points[1] \div 2 ELSE 0

\* Mutant: the throttle functions look up the capacity too.
NeedsCapacityAlways(metric) == TRUE

\* The functions that go on to look up the provisioned capacity.
NeedsCapacity(metric) == metric \in ConsumedMetrics

NoResult == [kind |-> "none"]

Value(v) == [kind |-> "value", value |-> v]

Raised(e) == [kind |-> "error", error |-> e]

\* Mutant: the capacity error is swallowed into a zero percentage.
OnCapacityErrorSwallowed == [kind |-> "value", value |-> 0]

\* except JSONResponseError: raise
OnCapacityError == Raised("JSONResponseError")

(***************************************************************************)
(* One invocation of a public function, split at its two remote calls.     *)
(***************************************************************************)
VARIABLES
    pc,                     \* "idle", "fetch", "capacity", "done"
    granularity,            \* "table" (table.py) or "gsi" (gsi.py)
    metric_name,            \* the metric the called function asks for
    lookback_window_start,  \* the caller's argument
    attempt_number,         \* Retrying.call's attempt_number
    sleeps,                 \* the time.sleep() calls of Retrying.call, in ms
    metric_calls,           \* get_metric_statistics calls made
    metric_errors,          \* ... of which raised
    error_kinds,            \* the kinds of error they raised
    query,                  \* window of the latest get_metric_statistics call
    metrics,                \* the list __get_aws_metric returned
    consumed_units,         \* consumed_read_units / consumed_write_units
    capacity_calls,         \* get_provisioned_*_units calls made
    capacity_errors,        \* ... of which raised
    provisioned,            \* what the capacity lookup returned
    result                  \* what the invocation returned or raised

vars == <<pc, granularity, metric_name, lookback_window_start, attempt_number,
          sleeps, metric_calls, metric_errors, error_kinds, query, metrics,
          consumed_units, capacity_calls, capacity_errors, provisioned, result>>

None == "None"

Init ==
    /\ pc = "idle"
    /\ granularity = None
    /\ metric_name = None
    /\ lookback_window_start = 0
    /\ attempt_number = 0
    /\ sleeps = <<>>
    /\ metric_calls = 0
    /\ metric_errors = 0
    /\ error_kinds = {}
    /\ query = None
    /\ metrics = None
    /\ consumed_units = None
    /\ capacity_calls = 0
    /\ capacity_errors = 0
    /\ provisioned = None
    /\ result = NoResult

\* The caller invokes one of the eight functions; Retrying.call starts.
Call(g, m, lookback) ==
    /\ pc = "idle"
    /\ pc' = "fetch"
    /\ granularity' = g
    /\ metric_name' = m
    /\ lookback_window_start' = lookback
    /\ attempt_number' = 1
    /\ UNCHANGED <<sleeps, metric_calls, metric_errors, error_kinds, query,
                   metrics, consumed_units, capacity_calls, capacity_errors,
                   provisioned, result>>

\* An attempt of __get_aws_metric returns points; the public function goes on
\* to its result (throttle count) or to the capacity lookup (consumed percent).
MetricReturns(points) ==
    /\ pc = "fetch"
    /\ metric_calls' = metric_calls + 1
    /\ query' = QueryWindow(granularity, lookback_window_start)
    /\ metrics' = points
    /\ IF ~NeedsCapacity(metric_name)
       THEN /\ result' = Value(ThrottledCount(points))
            /\ pc' = "done"
            /\ UNCHANGED consumed_units
       ELSE IF SumDivisionByZero(granularity, lookback_window_start, points)
       THEN /\ result' = Raised("ZeroDivisionError")
            /\ pc' = "done"
            /\ UNCHANGED consumed_units
       ELSE /\ consumed_units' =
                   ConsumedUnits(granularity, lookback_window_start, points)
            /\ pc' = "capacity"
            /\ UNCHANGED result
    /\ UNCHANGED <<granularity, metric_name, lookback_window_start,
                   attempt_number, sleeps, metric_errors, error_kinds,
                   capacity_calls, capacity_errors, provisioned>>

\* An attempt of __get_aws_metric raises BotoServerError: it is logged and
\* re-raised into Retrying.call, which stops or sleeps and tries again.
MetricRaises(kind) ==
    /\ pc = "fetch"
    /\ metric_calls' = metric_calls + 1
    /\ query' = QueryWindow(granularity, lookback_window_start)
    /\ metric_errors' = metric_errors + 1
    /\ error_kinds' = error_kinds \cup {kind}
    /\ IF ~should_reject(kind) \/ stop_after_attempt(attempt_number)
       THEN /\ result' = Raised("BotoServerError")
            /\ pc' = "done"
            /\ UNCHANGED <<sleeps, attempt_number>>
       ELSE /\ sleeps' = Append(sleeps, exponential_sleep(attempt_number))
            /\ attempt_number' = attempt_number + 1
            /\ UNCHANGED <<pc, result>>
    /\ UNCHANGED <<granularity, metric_name, lookback_window_start, metrics,
                   consumed_units, capacity_calls, capacity_errors, provisioned>>

\* dynamodb.get_provisioned_*_units returns p; the percentage is computed.
CapacityReturns(p) ==
    /\ pc = "capacity"
    /\ capacity_calls' = capacity_calls + 1
    /\ provisioned' = p
    /\ result' = IF p = 0 THEN Raised("ZeroDivisionError")
                 ELSE Value(ConsumedPercent(consumed_units, p))
    /\ pc' = "done"
    /\ UNCHANGED <<granularity, metric_name, lookback_window_start,
                   attempt_number, sleeps, metric_calls, metric_errors,
                   error_kinds, query, metrics, consumed_units,
                   capacity_errors>>

\* dynamodb.get_provisioned_*_units raises JSONResponseError.
CapacityRaises ==
    /\ pc = "capacity"
    /\ capacity_calls' = capacity_calls + 1
    /\ capacity_errors' = capacity_errors + 1
    /\ result' = OnCapacityError
    /\ pc' = "done"
    /\ UNCHANGED <<granularity, metric_name, lookback_window_start,
                   attempt_number, sleeps, metric_calls, metric_errors,
                   error_kinds, query, metrics, consumed_units, provisioned>>

Next ==
    \/ \E g \in Granularities, m \in MetricNames, lookback \in Lookbacks :
           Call(g, m, lookback)
    \/ \E points \in MetricResults : MetricReturns(points)
    \/ \E kind \in ErrorKinds : MetricRaises(kind)
    \/ \E p \in Capacities : CapacityReturns(p)
    \/ CapacityRaises

Spec == Init /\ [][Next]_vars

(***************************************************************************)
(* Properties.                                                             *)
(***************************************************************************)
\* ceil(a / b) in exact arithmetic, for a >= 0 and b > 0.
CeilDiv(a, b) == (a + b - 1) \div b

Min(a, b) == IF a < b THEN a ELSE b

\* The metric fetch of the invocation has completed successfully.
Fetched == metric_calls > metric_errors

\* The invocation returned a percentage on a Sum and a capacity p > 0.
ReturnedPercent ==
    /\ pc = "done"
    /\ metric_name \in ConsumedMetrics
    /\ Fetched
    /\ capacity_calls = 1
    /\ capacity_errors = 0
    /\ provisioned > 0

\* C1: a consumed percent call that got a data point with Sum S >= 0 and a
\* capacity P > 0 returns ceil(ceil(S / window_seconds) / P * 100), with
\* window_seconds = lookback * 60 for a table call with lookback >= 5 and
\* 300 for a GSI call.
C1_ExactCeilings ==
    (/\ ReturnedPercent
     /\ metrics # <<>>
     /\ (granularity = "gsi" \/ lookback_window_start >= 5))
    => LET seconds == IF granularity = "table"
                      THEN lookback_window_start * 60 ELSE 300
       IN  result =
               Value(CeilDiv(CeilDiv(metrics[1], 2 * seconds) * 100, provisioned))

\* The provider has failed transiently on every attempt made so far.
AllAttemptsFailedTransiently ==
    /\ metric_calls > 0
    /\ metric_errors = metric_calls
    /\ error_kinds = {"transient"}

\* C2: when the metrics provider fails transiently on every attempt, the
\* invocation makes exactly 10 calls to it, sleeps between them for
\* non-decreasing times of at most 10000 ms, and ends in an error; there is
\* never an 11th call.
C2_RetryExhaustion ==
    /\ metric_calls <= 10
    /\ AllAttemptsFailedTransiently =>
          /\ \A i \in 1..Len(sleeps) : sleeps[i] <= 10000
          /\ \A i \in 1..(Len(sleeps) - 1) : sleeps[i] <= sleeps[i + 1]
          /\ pc # "done" => (metric_calls < 10 /\ Len(sleeps) = metric_calls)
          /\ pc = "done" =>
                (metric_calls = 10 /\ Len(sleeps) = 9 /\ result.kind = "error")

C2_Witness ==
    AllAttemptsFailedTransiently /\ pc = "done" /\ metric_calls = 10

\* C3: a table call with lookback < 5 queries the window [now - 5 min, now]
\* and returns, for the same Sum and capacity, what the call with
\* lookback = 5 returns.
C3_TreatedAsFive ==
    (/\ pc = "done"
     /\ granularity = "table"
     /\ lookback_window_start < 5
     /\ metric_name \in ConsumedMetrics
     /\ Fetched
     /\ capacity_errors = 0
     /\ (capacity_calls = 1 => provisioned > 0))
    => /\ query = [start |-> 5, end |-> 0]
       /\ capacity_calls = 1
       /\ result = Value(ConsumedPercent(ConsumedUnits("table", 5, metrics),
                                         provisioned))

\* C4: once an attempt has raised a non-transient error, the invocation makes
\* no further call to the metrics provider.
C4_NonTransientNotRetried ==
    [][("nontransient" \in error_kinds) => (metric_calls' = metric_calls)]_vars

\* C5 as written: the wait after the k-th failed attempt is
\* min(1000 * 2^(k-1), 10000) ms: 1000, 2000, 4000, 8000, 10000, ...
C5_WaitsStartAt1000 ==
    \A k \in 1..Len(sleeps) : sleeps[k] = Min(1000 * 2^(k - 1), 10000)

\* C5 amended: the wait after the k-th failed attempt (k = 1..9) is
\* min(1000 * 2^k, 10000) ms: 2000, 4000, 8000, 10000, 10000, ...
C5_WaitsStartAt2000 ==
    /\ Len(sleeps) <= 9
    /\ \A k \in 1..Len(sleeps) : sleeps[k] = Min(1000 * 2^k, 10000)

C5_Witness == Len(sleeps) = 9 /\ sleeps[1] = 2000 /\ sleeps[4] = 10000

\* C6: every value a consumed percent operation returns is an integer >= 0,
\* whatever the Sum >= 0, the capacity > 0 and the lookback.
C6_PercentNonNegative ==
    ReturnedPercent => (result.kind = "value" /\ result.value >= 0)

\* C7: when the capacity lookup fails, the invocation ends in that error and
\* returns no percentage, also after NoData; the capacity provider is called
\* at most once per invocation.
C7_CapacityErrorPropagates ==
    /\ capacity_calls <= 1
    /\ capacity_errors > 0 =>
          (pc = "done" /\ result = Raised("JSONResponseError"))

C7_Witness ==
    capacity_errors = 1 /\ metrics = <<>> /\ result = Raised("JSONResponseError")

\* C8: when the metric fetch of a consumed percent call returns NoData, the
\* call goes on to the capacity lookup, fails only if that lookup fails or
\* returns 0, and for every capacity P > 0 and every lookback returns 0, for
\* table and GSI alike.
C8_NoDataIsZero ==
    (/\ metric_name \in ConsumedMetrics
     /\ Fetched
     /\ metrics = <<>>)
    => /\ pc \in {"capacity", "done"}
       /\ result.kind = "error" =>
              (capacity_calls = 1 /\ (capacity_errors = 1 \/ provisioned = 0))
       /\ ReturnedPercent => result = Value(0)

C8_Witness ==
    /\ ReturnedPercent
    /\ metrics = <<>>
    /\ granularity = "table"
    /\ lookback_window_start = 0
    /\ result = Value(0)

\* C9: a throttle count call returns the Sum of the first data point as an
\* integer, whatever the lookback, and 0 on NoData.
C9_ThrottlePassThrough ==
    (/\ metric_name \in ThrottleMetrics
     /\ Fetched)
    => /\ pc = "done"
       /\ result.kind = "value"
       /\ metrics = <<>> => result.value = 0
       /\ (metrics # <<>> /\ metrics[1] % 2 = 0) => 2 * result.value = metrics[1]

C9_Witness ==
    /\ metric_name \in ThrottleMetrics
    /\ Fetched
    /\ Len(metrics) = MaxPoints
    /\ metrics[1] = 14
    /\ result = Value(7)

\* C10: the capacity lookup is issued only once the metric fetch has
\* completed successfully, only by a consumed percent operation, and no
\* metrics-provider call follows it.
C10_CapacityAfterMetric ==
    [][/\ (capacity_calls' # capacity_calls) =>
              /\ Fetched
              /\ metric_name \in ConsumedMetrics
              /\ metric_calls' = metric_calls
       /\ (capacity_calls > 0) => (metric_calls' = metric_calls)]_vars

C10_Witness ==
    capacity_calls = 1 /\ metric_errors = 9 /\ metric_calls = 10

====
